---------------------------- MODULE Spec2Model ----------------------------
(***************************************************************************)
(* Session / identity lifecycle of the Tripmate backend: registration with *)
(* e-mail OTP, password login, access/refresh token issuance, refresh,     *)
(* logout, revocation through tokenVersion, password reset and change,     *)
(* admin block/unblock, and the authenticate middleware.                   *)
(*                                                                         *)
(* Every request handler is a short sequence of store calls (each `await   *)
(* prisma...` is one atomic step); handlers of concurrent requests         *)
(* interleave between those steps.  A handler's local variables (the row   *)
(* it read, the token it minted) live in its request record.               *)
(***************************************************************************)
EXTENDS Integers, Sequences, FiniteSets, Bags, TLC

VARIABLES
    users,      \* the User table: a set of rows
    profiles,   \* the UserProfile table: the user ids that have a profile
    audit,      \* the AuditLog table, as the bag of its <<action, entityId>> entries
    nextId,     \* the next autoincrement id of the User table
    now,        \* the clock, in seconds
    ticks,      \* how often the clock has advanced
    reqs,       \* the requests in flight: each handler's position and locals
    last,       \* the response of the request that completed last
    held,       \* the tokens delivered to the client so far
    nreq,       \* the number of requests received
    otpUses,    \* history: the successful changes that the OTP stored last has gated
    revoked,    \* history: the tokens that were delivered before a revokeAllSessions
                \* of their account completed
    changed     \* history: the tokens that were delivered before a changePassword
                \* of their account completed

vars ==
    <<users, profiles, audit, nextId, now, ticks, reqs, last, held, nreq, otpUses,
      revoked, changed>>

---------------------------------------------------------------------------
(* Bounds of the model *)

NumClients == 2

MaxReqs == 3

(* how often the administrator blocks, and unblocks, one account *)
MaxBlocks == 1

MaxTicks == 3

(* Program constants *)

OTP_EXPIRE_MINUTES == 15

ACCESS_EXPIRE_MINUTES == 15

REFRESH_EXPIRE_DAYS == 7
PASSWORD_RESET_EXPIRE_MINUTES == 30

(* Inputs *)

Emails == {"u@x.com"}

Passwords == {"Pw1", "Pw2"}

Otps == {"111111", "222222"}

Clients == 1..NumClients

(* The clock counts seconds; it advances by one second or by one second    *)
(* less than the OTP lifetime, so that the instants just before, at and    *)
(* just after an expiry are reached within MaxTicks steps.                 *)
TickSteps == {1, OTP_EXPIRE_MINUTES * 60 - 1}

Null == <<>>

Date(t) == <<t>>

---------------------------------------------------------------------------
(* lib/auth.js *)

hashPassword(password) == <<"bcrypt", password>>

comparePassword(password, hash) == hash = <<"bcrypt", password>>

hashToken(x) == <<"sha256", x>>

verifyOTP(plainOTP, hashedOTP) == hashToken(plainOTP) = hashedOTP

(* jwt.sign: the payload plus iat (the second of signing); the secret used *)
(* is the token's kind.  Two tokens of one kind with equal payloads signed *)
(* in the same second are the same string.                                 *)
Sign(kind, payload, t) ==
    [kind |-> kind, userId |-> payload.userId, role |-> payload.role,
     version |-> payload.version, iat |-> t]

generateAccessToken(payload) == Sign("access", payload, now)

generateRefreshToken(payload) == Sign("refresh", payload, now)

Lifetime(kind) ==
    IF kind = "access" THEN ACCESS_EXPIRE_MINUTES * 60
    ELSE REFRESH_EXPIRE_DAYS * 24 * 60 * 60

(* jwt.verify(token, secret): "ok", or the name of the error it throws *)
JwtVerifyAnySecret(token, kind) ==
    IF now >= token.iat + Lifetime(token.kind) THEN "TokenExpiredError"
    ELSE "ok"

JwtVerify(token, kind) ==
    IF token.kind # kind THEN "JsonWebTokenError"
    ELSE IF now >= token.iat + Lifetime(token.kind) THEN "TokenExpiredError"
    ELSE "ok"

---------------------------------------------------------------------------
(* utils/errors.js and the responses *)

Err(kind, msg) == [kind |-> kind, msg |-> msg]

Ok(msg) == [kind |-> "ok", msg |-> msg]

NoRes == [kind |-> "", msg |-> ""]

(* prisma.user.update / delete on a row that does not exist *)
P2025 == Err("PrismaClientKnownRequestError", "Resource not found")

AuditDown == Err("Error", "audit log write failed")

MailDown == Err("Error", "Email sending failed")

---------------------------------------------------------------------------
(* The store *)

ByEmail(e) == {u \in users : u.email = e}

ById(id) == {u \in users : u.id = id}

One(S) == CHOOSE x \in S : TRUE

(* A payload whose version is not the one of the row read: C29 fails on it. *)
TokenPayloadNextVersion(user) ==
    [userId |-> user.id, role |-> user.role, version |-> user.tokenVersion + 1]

TokenPayload(user) ==
    [userId |-> user.id, role |-> user.role, version |-> user.tokenVersion]

(* A handler between two store calls.  uid: the id of the row it read;     *)
(* mint: the refresh token of the token pair it generated; fresh: the OTP  *)
(* it validated is still the one stored last.  Request inputs that only a  *)
(* later store call uses are drawn at that call.                           *)
Idle ==
    [op |-> "idle", pc |-> "idle", email |-> "", uid |-> 0,
     mint |-> {}, fresh |-> FALSE, actor |-> 0]

(* A new request takes the lowest free slot *)
Free(c) ==
    /\ reqs[c] = Idle
    /\ \A d \in Clients : d < c => reqs[d] # Idle
    /\ nreq < MaxReqs

Begin(op, pc) == [Idle EXCEPT !.op = op, !.pc = pc]

At(c, op, pc) == reqs[c].op = op /\ reqs[c].pc = pc

(* authenticate's error for a blocked account *)
Blocked == Err("ForbiddenError", "Account is blocked. Please contact support.")

(* What a response does to the access_token and refresh_token cookies:     *)
(* verifyEmailOTP, login and refreshTokens set them with their 200;        *)
(* refreshTokens' catch, logout's and revokeAllSessions' 200 and           *)
(* authenticate's blocked branch clear them.                               *)
Cookies(op, res) ==
    IF res.kind = "ok" /\ op \in {"verifyEmail", "login", "refresh"} THEN "set"
    ELSE IF res.kind = "ok" /\ op \in {"logout", "revokeAllSessions", "deleteAccount"}
    THEN "cleared"
    ELSE IF res.kind # "ok" /\ op = "refresh" THEN "cleared"
    ELSE IF res = Blocked THEN "cleared"
    ELSE "kept"

Response(op, res) == [op |-> op, res |-> res, cookies |-> Cookies(op, res)]

Init ==
    /\ users = {}
    /\ profiles = {}
    /\ audit = EmptyBag
    /\ nextId = 1
    /\ now = 0
    /\ ticks = 0
    /\ reqs = [c \in Clients |-> Idle]
    /\ last = Response("", NoRes)
    /\ held = {}
    /\ nreq = 0
    /\ otpUses = 0
    /\ revoked = {}
    /\ changed = {}

Tick(d) ==
    /\ ticks < MaxTicks
    /\ now' = now + d
    /\ ticks' = ticks + 1
    /\ UNCHANGED <<users, profiles, audit, nextId, reqs, last, held, nreq, otpUses, revoked, changed>>

(* The handler of c goes on to its next store call *)
Goto(c, r) ==
    /\ reqs' = [reqs EXCEPT ![c] = r]
    /\ last' = last

(* The handler of c responds *)
Finish(c, op, res) ==
    /\ reqs' = [reqs EXCEPT ![c] = Idle]
    /\ last' = Response(op, res)

(* A new OTP is stored: the handlers that validated the previous one hold  *)
(* a stale validation.                                                     *)
Stale(rs) == [c \in Clients |-> [rs[c] EXCEPT !.fresh = FALSE]]

(* prisma.auditLog.create; it throws when the audit table is unavailable *)
AuditCreate(fault, action, id) ==
    IF fault = "audit" THEN audit ELSE audit (+) SetToBag({<<action, id>>})

---------------------------------------------------------------------------
(* REGISTRATION *)

(* registerUser, step 1: findUnique by email and the verified check *)
RegisterFind(c, e) ==
    /\ Free(c)
    /\ LET existing == ByEmail(e)
       IN IF existing # {} /\ One(existing).isVerified
          THEN Finish(c, "register",
                      Err("ValidationError", "Email already registered and verified."))
          ELSE Goto(c, [Begin("register", "upsert") EXCEPT !.email = e])
    /\ nreq' = nreq + 1
    /\ UNCHANGED <<users, profiles, audit, nextId, now, ticks, held, otpUses, revoked, changed>>

(* An upsert whose update branch leaves the stored password alone: C8's   *)
(* overwrite fails on it.                                                  *)
RegisterUpdateRowKeepingPassword(old, pw, otp) ==
    [old EXCEPT !.otpCode = hashToken(otp),
                !.otpExpiresAt = Date(now + OTP_EXPIRE_MINUTES * 60),
                !.isVerified = FALSE]

(* An upsert whose update branch starts the versions again: C14 fails on   *)
(* it.                                                                     *)
RegisterUpdateRowResettingVersion(old, pw, otp) ==
    [old EXCEPT !.password = hashPassword(pw),
                !.otpCode = hashToken(otp),
                !.otpExpiresAt = Date(now + OTP_EXPIRE_MINUTES * 60),
                !.isVerified = FALSE,
                !.tokenVersion = 0]

(* the update branch of registerUser's upsert *)
RegisterUpdateRow(old, pw, otp) ==
    [old EXCEPT !.password = hashPassword(pw),
                !.otpCode = hashToken(otp),
                !.otpExpiresAt = Date(now + OTP_EXPIRE_MINUTES * 60),
                !.isVerified = FALSE]

(* the create branch of registerUser's upsert *)
(* A store that hands out the lowest unused id again: C37 fails on it. *)
RegisterCreateRowReusingId(e, pw, otp) ==
    [id |-> CHOOSE i \in 1..nextId : /\ \A u \in users : u.id # i
                                     /\ \A j \in 1..(i - 1) : \E u \in users : u.id = j,
     email |-> e, password |-> hashPassword(pw),
     role |-> "TRAVELLER",
     otpCode |-> hashToken(otp),
     otpExpiresAt |-> Date(now + OTP_EXPIRE_MINUTES * 60),
     isVerified |-> FALSE, isActive |-> TRUE, tokenVersion |-> 0,
     refreshToken |-> Null]

RegisterCreateRow(e, pw, otp) ==
    [id |-> nextId, email |-> e, password |-> hashPassword(pw),
     role |-> "TRAVELLER",
     otpCode |-> hashToken(otp),
     otpExpiresAt |-> Date(now + OTP_EXPIRE_MINUTES * 60),
     isVerified |-> FALSE, isActive |-> TRUE, tokenVersion |-> 0,
     refreshToken |-> Null]

(* registerUser, steps 3-6: hash the password, generate the OTP, upsert,   *)
(* send the mail, write the audit entry                                    *)
RegisterUpsert(c, pw, otp, fault) ==
    /\ At(c, "register", "upsert")
    /\ LET r == reqs[c]
           existing == ByEmail(r.email)
           row == IF existing # {} THEN RegisterUpdateRow(One(existing), pw, otp)
                  ELSE RegisterCreateRow(r.email, pw, otp)
       IN /\ users' = (users \ existing) \cup {row}
          /\ nextId' = IF existing # {} THEN nextId ELSE nextId + 1
          /\ audit' = IF fault = "mail" THEN audit ELSE AuditCreate(fault, "REGISTER", row.id)
          /\ reqs' = [Stale(reqs) EXCEPT ![c] = Idle]
          /\ last' = Response("register",
               CASE fault = "mail" -> MailDown
                 [] fault = "audit" -> AuditDown
                 [] OTHER -> Ok("Registration successful. OTP sent to your email."))
    /\ otpUses' = 0
    /\ UNCHANGED <<profiles, now, ticks, held, nreq, revoked, changed>>

---------------------------------------------------------------------------
(* EMAIL VERIFICATION *)

(* The OTP checks of verifyEmailOTP and resetPassword, in the code's       *)
(* order: "none", "expired", "invalid" or "ok".                            *)
(* An expiry check that already fails in the second of expiry: C7's       *)
(* boundary fails on it.                                                   *)
OtpExpiredAtExpiry(user) == now >= user.otpExpiresAt[1]

OtpExpired(user) == now > user.otpExpiresAt[1]

OtpCheckCodeFirst(user, otp) ==
    IF user.otpCode = Null \/ user.otpExpiresAt = Null THEN "none"
    ELSE IF ~verifyOTP(otp, user.otpCode) THEN "invalid"
    ELSE IF OtpExpired(user) THEN "expired"
    ELSE "ok"

OtpCheck(user, otp) ==
    IF user.otpCode = Null \/ user.otpExpiresAt = Null THEN "none"
    ELSE IF OtpExpired(user) THEN "expired"
    ELSE IF ~verifyOTP(otp, user.otpCode) THEN "invalid"
    ELSE "ok"

VerifyOtpError(check) ==
    CASE check = "none" ->
           Err("ValidationError", "No OTP request found. Please request a new one.")
      [] check = "expired" ->
           Err("ValidationError", "OTP expired. Please register again or resend OTP.")
      [] OTHER -> Err("ValidationError", "Invalid OTP.")

(* A check that withdraws the pending OTP on a wrong code: C35 fails on it. *)
VerifyFindBurningOtp(c, e, otp) ==
    /\ Free(c)
    /\ LET found == ByEmail(e)
           check == OtpCheck(One(found), otp)
       IN IF found = {}
          THEN /\ Finish(c, "verifyEmail", Err("NotFoundError", "User not found."))
               /\ users' = users
          ELSE IF check # "ok"
          THEN /\ Finish(c, "verifyEmail", VerifyOtpError(check))
               /\ users' = IF check = "invalid"
                           THEN (users \ found) \cup
                                {[One(found) EXCEPT !.otpCode = Null, !.otpExpiresAt = Null]}
                           ELSE users
          ELSE /\ Goto(c, [Begin("verifyEmail", "update") EXCEPT
                           !.email = e, !.uid = One(found).id, !.fresh = TRUE])
               /\ users' = users
    /\ nreq' = nreq + 1
    /\ UNCHANGED <<profiles, audit, nextId, now, ticks, held, otpUses, revoked, changed>>

(* verifyEmailOTP, steps 1-3: findUnique by email and the OTP checks *)
VerifyFind(c, e, otp) ==
    /\ Free(c)
    /\ LET found == ByEmail(e)
           check == OtpCheck(One(found), otp)
       IN IF found = {}
          THEN Finish(c, "verifyEmail", Err("NotFoundError", "User not found."))
          ELSE IF check # "ok"
          THEN Finish(c, "verifyEmail", VerifyOtpError(check))
          ELSE Goto(c, [Begin("verifyEmail", "update") EXCEPT
                           !.email = e, !.uid = One(found).id, !.fresh = TRUE])
    /\ nreq' = nreq + 1
    /\ UNCHANGED <<users, profiles, audit, nextId, now, ticks, held, otpUses, revoked, changed>>

(* An update that leaves the OTP fields alone: C5 fails on it. *)
VerifiedRowKeepingOtp(old) ==
    [old EXCEPT !.isVerified = TRUE, !.isActive = TRUE]

(* An update that clears the code and leaves its expiry: C15 fails on it. *)
VerifiedRowKeepingExpiry(old) ==
    [old EXCEPT !.isVerified = TRUE, !.otpCode = Null, !.isActive = TRUE]

(* the data of verifyEmailOTP's update *)
VerifiedRow(old) ==
    [old EXCEPT !.isVerified = TRUE, !.otpCode = Null, !.otpExpiresAt = Null,
                !.isActive = TRUE]

(* verifyEmailOTP, steps 4-6 (update by email, profile upsert, audit), and *)
(* the controller's token generation from the updated row                  *)
VerifyUpdate(c, fault) ==
    /\ At(c, "verifyEmail", "update")
    /\ LET r == reqs[c]
           found == ByEmail(r.email)
           row == VerifiedRow(One(found))
       IN IF found = {}
          THEN /\ Finish(c, "verifyEmail", P2025)
               /\ UNCHANGED <<users, profiles, audit, otpUses>>
          ELSE /\ users' = (users \ found) \cup {row}
               /\ profiles' = profiles \cup {row.id}
               /\ audit' = AuditCreate(fault, "VERIFY_EMAIL", row.id)
               /\ otpUses' = IF r.fresh THEN otpUses + 1 ELSE otpUses
               /\ IF fault = "audit"
                  THEN Finish(c, "verifyEmail", AuditDown)
                  ELSE Goto(c, [r EXCEPT !.pc = "save", !.uid = row.id,
                                  !.mint = {generateRefreshToken(TokenPayload(row))}])
    /\ UNCHANGED <<nextId, now, ticks, held, nreq, revoked, changed>>

---------------------------------------------------------------------------
(* REFRESH TOKEN MANAGEMENT *)

AccessOf(refresh) == [refresh EXCEPT !.kind = "access"]

SuccessMessage(op) ==
    CASE op = "verifyEmail" -> "Email verified successfully."
      [] op = "login" -> "Login successful."
      [] OTHER -> "Token refreshed successfully."

(* the data of saveRefreshToken's update *)
SavedRow(old, token) == [old EXCEPT !.refreshToken = hashToken(token)]

(* saveRefreshToken, then the cookies and the 200 response of              *)
(* verifyEmailOTP, login and refreshTokens                                 *)
SaveSession(c) ==
    /\ reqs[c].pc = "save"
    /\ LET r == reqs[c]
           found == ById(r.uid)
           token == One(r.mint)
       IN IF found = {}
          THEN /\ Finish(c, r.op, P2025)
               /\ UNCHANGED <<users, held>>
          ELSE /\ users' = (users \ found) \cup {SavedRow(One(found), token)}
               /\ held' = held \cup {token, AccessOf(token)}
               /\ Finish(c, r.op, Ok(SuccessMessage(r.op)))
    /\ UNCHANGED <<profiles, audit, nextId, now, ticks, nreq, otpUses, revoked, changed>>

---------------------------------------------------------------------------
(* OTP MANAGEMENT: createAndSendOTP, called by requestPasswordReset with   *)
(* type PASSWORD_RESET and by resendOTP with the request's type            *)

OtpRequestOp(type) == IF type = "PASSWORD_RESET" THEN "requestPasswordReset" ELSE "resendOtp"

(* createAndSendOTP: findUnique by email *)
OtpFind(c, e, type) ==
    /\ Free(c)
    /\ LET found == ByEmail(e)
       IN IF found = {}
          THEN Finish(c, OtpRequestOp(type), Err("NotFoundError", "User not found."))
          ELSE Goto(c, [Begin(OtpRequestOp(type), "otp") EXCEPT
                           !.email = e, !.uid = One(found).id])
    /\ nreq' = nreq + 1
    /\ UNCHANGED <<users, profiles, audit, nextId, now, ticks, held, otpUses, revoked, changed>>

(* An update that leaves a pending code in place: C25 fails on it. *)
OtpRowKeepingPending(old, otp) ==
    [old EXCEPT !.otpCode = IF old.otpCode = Null THEN hashToken(otp) ELSE old.otpCode,
                !.otpExpiresAt = Date(now + OTP_EXPIRE_MINUTES * 60)]

(* the data of createAndSendOTP's update *)
OtpRow(old, otp) ==
    [old EXCEPT !.otpCode = hashToken(otp),
                !.otpExpiresAt = Date(now + OTP_EXPIRE_MINUTES * 60)]

(* A createAndSendOTP that mails before it stores: C36 fails on it. *)
OtpUpdateMailFirst(c, otp, fault) ==
    /\ reqs[c].pc = "otp"
    /\ LET r == reqs[c]
           found == ById(r.uid)
       IN IF found = {}
          THEN /\ Finish(c, r.op, P2025)
               /\ UNCHANGED <<users, audit, otpUses>>
          ELSE IF fault = "mail"
          THEN /\ Finish(c, r.op, MailDown)
               /\ UNCHANGED <<users, audit, otpUses>>
          ELSE /\ users' = (users \ found) \cup {OtpRow(One(found), otp)}
               /\ audit' = AuditCreate(fault, "RESEND_OTP", r.uid)
               /\ otpUses' = 0
               /\ reqs' = [Stale(reqs) EXCEPT ![c] = Idle]
               /\ last' = Response(r.op,
                    CASE fault = "audit" -> AuditDown
                      [] r.op = "requestPasswordReset" ->
                           Ok("Password reset link sent to your email.")
                      [] OTHER -> Ok("OTP resent to your email."))
    /\ UNCHANGED <<profiles, nextId, now, ticks, held, nreq, revoked, changed>>

(* createAndSendOTP, steps 1-4: generate, update by id, mail, audit *)
OtpUpdate(c, otp, fault) ==
    /\ reqs[c].pc = "otp"
    /\ LET r == reqs[c]
           found == ById(r.uid)
       IN IF found = {}
          THEN /\ Finish(c, r.op, P2025)
               /\ UNCHANGED <<users, audit, otpUses>>
          ELSE /\ users' = (users \ found) \cup {OtpRow(One(found), otp)}
               /\ audit' = IF fault = "mail" THEN audit
                           ELSE AuditCreate(fault, "RESEND_OTP", r.uid)
               /\ otpUses' = 0
               /\ reqs' = [Stale(reqs) EXCEPT ![c] = Idle]
               /\ last' = Response(r.op,
                    CASE fault = "mail" -> MailDown
                      [] fault = "audit" -> AuditDown
                      [] r.op = "requestPasswordReset" ->
                           Ok("Password reset link sent to your email.")
                      [] OTHER -> Ok("OTP resent to your email."))
    /\ UNCHANGED <<profiles, nextId, now, ticks, held, nreq, revoked, changed>>

---------------------------------------------------------------------------
(* PASSWORD RESET *)

ResetOtpError(check) ==
    CASE check = "none" -> Err("ValidationError", "No OTP request found.")
      [] check = "expired" -> Err("ValidationError", "OTP has expired.")
      [] OTHER -> Err("ValidationError", "Invalid OTP.")

(* resetPassword: findUnique by email and the OTP checks *)
ResetFind(c, e, otp) ==
    /\ Free(c)
    /\ LET found == ByEmail(e)
           check == OtpCheck(One(found), otp)
       IN IF found = {}
          THEN Finish(c, "resetPassword", Err("NotFoundError", "User not found."))
          ELSE IF check # "ok"
          THEN Finish(c, "resetPassword", ResetOtpError(check))
          ELSE Goto(c, [Begin("resetPassword", "update") EXCEPT
                           !.email = e, !.uid = One(found).id, !.fresh = TRUE])
    /\ nreq' = nreq + 1
    /\ UNCHANGED <<users, profiles, audit, nextId, now, ticks, held, otpUses, revoked, changed>>

(* An update that leaves the stored session: C20 fails on it. *)
ResetRowKeepingSession(old, newPassword) ==
    [old EXCEPT !.password = hashPassword(newPassword),
                !.otpCode = Null, !.otpExpiresAt = Null,
                !.tokenVersion = old.tokenVersion + 1]

(* the data of resetPassword's update *)
ResetRow(old, newPassword) ==
    [old EXCEPT !.password = hashPassword(newPassword),
                !.otpCode = Null, !.otpExpiresAt = Null,
                !.refreshToken = Null,
                !.tokenVersion = old.tokenVersion + 1]

(* resetPassword, steps 2-4: hash, update by id, audit *)
ResetUpdate(c, newPassword, fault) ==
    /\ At(c, "resetPassword", "update")
    /\ LET r == reqs[c]
           found == ById(r.uid)
       IN IF found = {}
          THEN /\ Finish(c, "resetPassword", P2025)
               /\ UNCHANGED <<users, audit, otpUses>>
          ELSE /\ users' = (users \ found) \cup {ResetRow(One(found), newPassword)}
               /\ audit' = AuditCreate(fault, "RESET_PASSWORD", r.uid)
               /\ otpUses' = IF r.fresh THEN otpUses + 1 ELSE otpUses
               /\ Finish(c, "resetPassword",
                         IF fault = "audit" THEN AuditDown
                         ELSE Ok("Password reset successful."))
    /\ UNCHANGED <<profiles, nextId, now, ticks, held, nreq, revoked, changed>>

---------------------------------------------------------------------------
(* AUTHENTICATION *)

(* An authenticateUser that looks at the account's status before the      *)
(* password: C10 fails on it.                                              *)
AuthenticateUserStatusFirst(found, password) ==
    IF found = {} THEN Err("ValidationError", "Invalid credentials.")
    ELSE IF ~One(found).isVerified
    THEN Err("ValidationError", "Email not verified. Please verify your account.")
    ELSE IF ~One(found).isActive
    THEN Err("ForbiddenError", "Your account has been blocked by an administrator.")
    ELSE IF ~comparePassword(password, One(found).password)
    THEN Err("ValidationError", "Invalid credentials.")
    ELSE Ok("")

(* An authenticateUser that tests isVerified before the password: C38     *)
(* fails on it.                                                            *)
AuthenticateUserVerifiedFirst(found, password) ==
    IF found = {} THEN Err("ValidationError", "Invalid credentials.")
    ELSE IF ~One(found).isVerified
    THEN Err("ValidationError", "Email not verified. Please verify your account.")
    ELSE IF ~comparePassword(password, One(found).password)
    THEN Err("ValidationError", "Invalid credentials.")
    ELSE IF ~One(found).isActive
    THEN Err("ForbiddenError", "Your account has been blocked by an administrator.")
    ELSE Ok("")

(* authenticateUser: "ok" or the error it throws *)
AuthenticateUser(found, password) ==
    IF found = {} THEN Err("ValidationError", "Invalid credentials.")
    ELSE IF ~comparePassword(password, One(found).password)
    THEN Err("ValidationError", "Invalid credentials.")
    ELSE IF ~One(found).isVerified
    THEN Err("ValidationError", "Email not verified. Please verify your account.")
    ELSE IF ~One(found).isActive
    THEN Err("ForbiddenError", "Your account has been blocked by an administrator.")
    ELSE Ok("")

(* login: authenticateUser (findUnique, compare, checks, audit), then the  *)
(* controller's own checks and the token generation from the row read      *)
LoginAuth(c, e, password, fault) ==
    /\ Free(c)
    /\ LET found == ByEmail(e)
           auth == AuthenticateUser(found, password)
           user == One(found)
       IN IF auth.kind # "ok"
          THEN /\ Finish(c, "login", auth)
               /\ audit' = audit
          ELSE /\ audit' = AuditCreate(fault, "LOGIN", user.id)
               /\ IF fault = "audit" THEN Finish(c, "login", AuditDown)
                  ELSE IF ~user.isVerified
                  THEN Finish(c, "login", Err("AuthenticationError",
                          "Email not verified. Please verify your email first."))
                  ELSE IF ~user.isActive
                  THEN Finish(c, "login", Err("ForbiddenError",
                          "Your account is blocked. Please contact support."))
                  ELSE Goto(c, [Begin("login", "save") EXCEPT
                          !.email = e, !.uid = user.id,
                          !.mint = {generateRefreshToken(TokenPayload(user))}])
    /\ nreq' = nreq + 1
    /\ UNCHANGED <<users, profiles, nextId, now, ticks, held, otpUses, revoked, changed>>

(* getUserWithRefreshToken: "ok" or the error it throws *)
GetUserWithRefreshToken(found, refreshToken) ==
    IF found = {} THEN Err("NotFoundError", "User not found.")
    ELSE IF One(found).refreshToken = Null
    THEN Err("ValidationError", "No valid session.")
    ELSE IF hashToken(refreshToken) # One(found).refreshToken
    THEN Err("ValidationError", "Invalid refresh token.")
    ELSE Ok("")

(* refreshTokens: the token of the request (supplied is empty when the     *)
(* request carries none), jwt.verify with the refresh secret,              *)
(* getUserWithRefreshToken, and the token generation from the row read     *)
RefreshGet(c, supplied) ==
    /\ Free(c)
    /\ LET token == One(supplied)
           verified == JwtVerify(token, "refresh")
           found == ById(token.userId)
           got == GetUserWithRefreshToken(found, token)
       IN IF supplied = {}
          THEN Finish(c, "refresh", Err("AuthenticationError", "No refresh token provided"))
          ELSE IF verified # "ok"
          THEN Finish(c, "refresh", Err(verified, "Invalid token"))
          ELSE IF got.kind # "ok"
          THEN Finish(c, "refresh", got)
          ELSE Goto(c, [Begin("refresh", "save") EXCEPT
                  !.uid = One(found).id,
                  !.mint = {generateRefreshToken(TokenPayload(One(found)))}])
    /\ nreq' = nreq + 1
    /\ UNCHANGED <<users, profiles, audit, nextId, now, ticks, held, otpUses, revoked, changed>>

---------------------------------------------------------------------------
(* THE authenticate MIDDLEWARE AND THE ROUTES BEHIND IT *)

(* An authenticate that compares the version before it looks at isActive:  *)
(* C13 fails on it.                                                        *)
AuthenticateVersionFirst(supplied) ==
    LET token == One(supplied)
        verified == JwtVerify(token, "access")
        found == ById(token.userId)
    IN IF supplied = {} THEN Err("AuthenticationError", "No access token provided")
       ELSE IF verified = "TokenExpiredError"
       THEN Err("AuthenticationError", "Token has expired")
       ELSE IF verified # "ok"
       THEN Err("AuthenticationError", "Invalid or expired token")
       ELSE IF found = {} THEN Err("AuthenticationError", "User not found")
       ELSE IF token.version # One(found).tokenVersion
       THEN Err("AuthenticationError", "Session revoked. Please login again.")
       ELSE IF ~One(found).isActive
       THEN Blocked
       ELSE Ok("")

(* authenticate: "ok" or the error it passes on *)
Authenticate(supplied) ==
    LET token == One(supplied)
        verified == JwtVerify(token, "access")
        found == ById(token.userId)
    IN IF supplied = {} THEN Err("AuthenticationError", "No access token provided")
       ELSE IF verified = "TokenExpiredError"
       THEN Err("AuthenticationError", "Token has expired")
       ELSE IF verified # "ok"
       THEN Err("AuthenticationError", "Invalid or expired token")
       ELSE IF found = {} THEN Err("AuthenticationError", "User not found")
       ELSE IF ~One(found).isActive
       THEN Blocked
       ELSE IF token.version # One(found).tokenVersion
       THEN Err("AuthenticationError", "Session revoked. Please login again.")
       ELSE Ok("")

GatedOps == {"me", "logout", "revokeAllSessions", "changePassword"}

(* A request to a protected route: authenticate, then the route's handler  *)
(* up to its first store call (getCurrentUser has none and responds)       *)
Gate(c, op, supplied) ==
    /\ Free(c)
    /\ LET gate == Authenticate(supplied)
       IN IF gate.kind # "ok" THEN Finish(c, op, gate)
          ELSE IF op = "me" THEN Finish(c, op, Ok(""))
          ELSE Goto(c, [Begin(op, "body") EXCEPT !.uid = One(supplied).userId])
    /\ nreq' = nreq + 1
    /\ UNCHANGED <<users, profiles, audit, nextId, now, ticks, held, otpUses, revoked, changed>>

(* A logout that also bumps tokenVersion: C34 fails on it. *)
LogoutClearRevoking(c, fault) ==
    /\ At(c, "logout", "body")
    /\ LET found == ById(reqs[c].uid)
       IN IF found = {}
          THEN /\ Finish(c, "logout", P2025)
               /\ UNCHANGED <<users, audit>>
          ELSE /\ users' = (users \ found) \cup
                     {[One(found) EXCEPT !.refreshToken = Null,
                                         !.tokenVersion = One(found).tokenVersion + 1]}
               /\ audit' = AuditCreate(fault, "LOGOUT", reqs[c].uid)
               /\ Finish(c, "logout",
                         IF fault = "audit" THEN AuditDown ELSE Ok("Logged out successfully."))
    /\ UNCHANGED <<profiles, nextId, now, ticks, held, nreq, otpUses, revoked, changed>>

(* logout: clearRefreshToken (update by id, audit), clear the cookies *)
LogoutClear(c, fault) ==
    /\ At(c, "logout", "body")
    /\ LET found == ById(reqs[c].uid)
       IN IF found = {}
          THEN /\ Finish(c, "logout", P2025)
               /\ UNCHANGED <<users, audit>>
          ELSE /\ users' = (users \ found) \cup {[One(found) EXCEPT !.refreshToken = Null]}
               /\ audit' = AuditCreate(fault, "LOGOUT", reqs[c].uid)
               /\ Finish(c, "logout",
                         IF fault = "audit" THEN AuditDown ELSE Ok("Logged out successfully."))
    /\ UNCHANGED <<profiles, nextId, now, ticks, held, nreq, otpUses, revoked, changed>>

(* the data of revokeAllUserSessions' update *)
RevokedRow(old) ==
    [old EXCEPT !.refreshToken = Null, !.tokenVersion = old.tokenVersion + 1]

(* revokeAllSessions: revokeAllUserSessions (update by id, audit), clear   *)
(* the cookies                                                             *)
RevokeUpdate(c, fault) ==
    /\ At(c, "revokeAllSessions", "body")
    /\ LET found == ById(reqs[c].uid)
       IN IF found = {}
          THEN /\ Finish(c, "revokeAllSessions", P2025)
               /\ UNCHANGED <<users, audit, revoked>>
          ELSE /\ users' = (users \ found) \cup {RevokedRow(One(found))}
               /\ revoked' = revoked \cup
                     {t \in held : t.userId = reqs[c].uid
                                    /\ t.version = One(found).tokenVersion}
               /\ audit' = AuditCreate(fault, "LOGOUT", reqs[c].uid)
               /\ Finish(c, "revokeAllSessions",
                         IF fault = "audit" THEN AuditDown
                         ELSE Ok("All sessions have been revoked. Please login again."))
    /\ UNCHANGED <<profiles, nextId, now, ticks, held, nreq, otpUses, changed>>

(* changePassword: getUserById and the comparison with the current one *)
ChangePasswordGet(c, currentPassword) ==
    /\ At(c, "changePassword", "body")
    /\ LET found == ById(reqs[c].uid)
       IN IF found = {}
          THEN Finish(c, "changePassword", Err("NotFoundError", "User not found."))
          ELSE IF ~comparePassword(currentPassword, One(found).password)
          THEN Finish(c, "changePassword",
                      Err("ValidationError", "Current password is incorrect"))
          ELSE Goto(c, [reqs[c] EXCEPT !.pc = "update"])
    /\ UNCHANGED <<users, profiles, audit, nextId, now, ticks, held, nreq, otpUses, revoked, changed>>

(* the data of changePassword's update *)
ChangedRow(old, newPassword) ==
    [old EXCEPT !.password = hashPassword(newPassword),
                !.refreshToken = Null,
                !.tokenVersion = old.tokenVersion + 1]

(* changePassword: hash the new password and update by id *)
ChangePasswordUpdate(c, newPassword) ==
    /\ At(c, "changePassword", "update")
    /\ LET found == ById(reqs[c].uid)
       IN IF found = {}
          THEN /\ Finish(c, "changePassword", P2025)
               /\ UNCHANGED <<users, changed>>
          ELSE /\ users' = (users \ found) \cup {ChangedRow(One(found), newPassword)}
               /\ changed' = changed \cup {t \in held : t.userId = reqs[c].uid}
               /\ Finish(c, "changePassword",
                         Ok("Password changed successfully. Please login again."))
    /\ UNCHANGED <<profiles, audit, nextId, now, ticks, held, nreq, otpUses, revoked>>

---------------------------------------------------------------------------
(* USER MANAGEMENT (admin routes).  The administrator is the seeded        *)
(* account, which is not a row of the modelled table: its own pass through *)
(* authenticate and isAdmin reads no row that the requests above write,    *)
(* and its id differs from every target id.                                *)

(* A block that also clears the stored session: C33 fails on it. *)
BlockUserClearingSession(id, fault) ==
    /\ CopiesIn(<<"BLOCK_USER", id>>, audit) < MaxBlocks
    /\ LET found == ById(id)
       IN IF found = {}
          THEN /\ last' = Response("block", P2025)
               /\ UNCHANGED <<users, audit>>
          ELSE /\ users' = (users \ found) \cup
                     {[One(found) EXCEPT !.isActive = FALSE, !.refreshToken = Null]}
               /\ audit' = AuditCreate(fault, "BLOCK_USER", id)
               /\ last' = Response("block",
                    IF fault = "audit" THEN AuditDown
                    ELSE Ok("User account blocked successfully"))
    /\ UNCHANGED <<profiles, nextId, now, ticks, reqs, held, nreq, otpUses, revoked, changed>>

(* POST /admin/users/:id/block: blockUser (update by id, audit) *)
BlockUser(id, fault) ==
    /\ CopiesIn(<<"BLOCK_USER", id>>, audit) < MaxBlocks
    /\ LET found == ById(id)
       IN IF found = {}
          THEN /\ last' = Response("block", P2025)
               /\ UNCHANGED <<users, audit>>
          ELSE /\ users' = (users \ found) \cup {[One(found) EXCEPT !.isActive = FALSE]}
               /\ audit' = AuditCreate(fault, "BLOCK_USER", id)
               /\ last' = Response("block",
                    IF fault = "audit" THEN AuditDown
                    ELSE Ok("User account blocked successfully"))
    /\ UNCHANGED <<profiles, nextId, now, ticks, reqs, held, nreq, otpUses, revoked, changed>>

(* POST /admin/users/:id/unblock: unblockUser (update by id, audit) *)
UnblockUser(id, fault) ==
    /\ CopiesIn(<<"UNBLOCK_USER", id>>, audit) < MaxBlocks
    /\ LET found == ById(id)
       IN IF found = {}
          THEN /\ last' = Response("unblock", P2025)
               /\ UNCHANGED <<users, audit>>
          ELSE /\ users' = (users \ found) \cup {[One(found) EXCEPT !.isActive = TRUE]}
               /\ audit' = AuditCreate(fault, "UNBLOCK_USER", id)
               /\ last' = Response("unblock",
                    IF fault = "audit" THEN AuditDown
                    ELSE Ok("User account unblocked successfully"))
    /\ UNCHANGED <<profiles, nextId, now, ticks, reqs, held, nreq, otpUses, revoked, changed>>

---------------------------------------------------------------------------
(* The requests a client can make: a token it presents is one it was given *)

Supplied == {S \in SUBSET held : Cardinality(S) <= 1}

Ids == 1..(nextId - 1)

Next ==
    \/ \E d \in TickSteps : Tick(d)
    \/ \E c \in Clients, e \in Emails : RegisterFind(c, e)
    \/ \E c \in Clients, pw \in Passwords, otp \in Otps : RegisterUpsert(c, pw, otp, "none")
    \/ \E c \in Clients, e \in Emails, otp \in Otps : VerifyFind(c, e, otp)
    \/ \E c \in Clients : VerifyUpdate(c, "none")
    \/ \E c \in Clients : SaveSession(c)
    \/ \E c \in Clients, e \in Emails, type \in {"PASSWORD_RESET", "EMAIL_VERIFY"} :
          OtpFind(c, e, type)
    \/ \E c \in Clients, otp \in Otps : OtpUpdate(c, otp, "none")
    \/ \E c \in Clients, e \in Emails, otp \in Otps : ResetFind(c, e, otp)
    \/ \E c \in Clients, pw \in Passwords : ResetUpdate(c, pw, "none")
    \/ \E c \in Clients, e \in Emails, pw \in Passwords : LoginAuth(c, e, pw, "none")
    \/ \E c \in Clients, t \in Supplied : RefreshGet(c, t)
    \/ \E c \in Clients, op \in GatedOps, t \in Supplied : Gate(c, op, t)
    \/ \E c \in Clients : LogoutClear(c, "none")
    \/ \E c \in Clients : RevokeUpdate(c, "none")
    \/ \E c \in Clients, pw \in Passwords : ChangePasswordGet(c, pw)
    \/ \E c \in Clients, pw \in Passwords : ChangePasswordUpdate(c, pw)
    \/ \E id \in Ids : BlockUser(id, "none")
    \/ \E id \in Ids : UnblockUser(id, "none")

Spec == Init /\ [][Next]_vars

---------------------------------------------------------------------------
(* The session requests on an account that exists already.  InitSession   *)
(* is the state Spec reaches when the account is registered and verified   *)
(* in second 0 (see SessionStateReached): a verified, active account whose *)
(* first token pair, signed in second 0, has been delivered.               *)

User0 ==
    [id |-> 1, email |-> "u@x.com", password |-> hashPassword("Pw1"),
     role |-> "TRAVELLER", otpCode |-> Null, otpExpiresAt |-> Null,
     isVerified |-> TRUE, isActive |-> TRUE, tokenVersion |-> 0,
     refreshToken |-> Null]

Refresh0 == Sign("refresh", TokenPayload(User0), 0)

InitSession ==
    /\ users = {[User0 EXCEPT !.refreshToken = hashToken(Refresh0)]}
    /\ profiles = {1}
    /\ audit = SetToBag({<<"REGISTER", 1>>, <<"VERIFY_EMAIL", 1>>})
    /\ nextId = 2
    /\ now = 0
    /\ ticks = 0
    /\ reqs = [c \in Clients |-> Idle]
    /\ last = Response("verifyEmail", Ok("Email verified successfully."))
    /\ held = {Refresh0, AccessOf(Refresh0)}
    /\ nreq = 0
    /\ otpUses = 1
    /\ revoked = {}
    /\ changed = {}

NextSession ==
    \/ \E d \in TickSteps : Tick(d)
    \/ \E c \in Clients, e \in Emails, pw \in Passwords : LoginAuth(c, e, pw, "none")
    \/ \E c \in Clients : SaveSession(c)
    \/ \E c \in Clients, t \in Supplied : RefreshGet(c, t)
    \/ \E c \in Clients, op \in GatedOps, t \in Supplied : Gate(c, op, t)
    \/ \E c \in Clients : LogoutClear(c, "none")
    \/ \E c \in Clients : RevokeUpdate(c, "none")
    \/ \E c \in Clients, pw \in Passwords : ChangePasswordGet(c, pw)
    \/ \E c \in Clients, pw \in Passwords : ChangePasswordUpdate(c, pw)
    \/ \E id \in Ids : BlockUser(id, "none")
    \/ \E id \in Ids : UnblockUser(id, "none")

SpecSession == InitSession /\ [][NextSession]_vars

(* The audited operations when the audit table may be unavailable: a      *)
(* prisma.auditLog.create either writes its entry or throws.               *)
Faults == {"none", "audit"}

NextFaults ==
    \/ \E d \in TickSteps : Tick(d)
    \/ \E c \in Clients, e \in Emails : RegisterFind(c, e)
    \/ \E c \in Clients, pw \in Passwords, otp \in Otps, fault \in Faults :
          RegisterUpsert(c, pw, otp, fault)
    \/ \E c \in Clients, e \in Emails, otp \in Otps : VerifyFind(c, e, otp)
    \/ \E c \in Clients, fault \in Faults : VerifyUpdate(c, fault)
    \/ \E c \in Clients : SaveSession(c)
    \/ \E c \in Clients, e \in Emails, otp \in Otps : ResetFind(c, e, otp)
    \/ \E c \in Clients, pw \in Passwords, fault \in Faults : ResetUpdate(c, pw, fault)
    \/ \E c \in Clients, e \in Emails, pw \in Passwords, fault \in Faults :
          LoginAuth(c, e, pw, fault)
    \/ \E c \in Clients, op \in {"logout", "revokeAllSessions"}, t \in Supplied :
          Gate(c, op, t)
    \/ \E c \in Clients, fault \in Faults : LogoutClear(c, fault)
    \/ \E c \in Clients, fault \in Faults : RevokeUpdate(c, fault)
    \/ \E id \in Ids, fault \in Faults : BlockUser(id, fault)
    \/ \E id \in Ids, fault \in Faults : UnblockUser(id, fault)

SpecFaults == Init /\ [][NextFaults]_vars

(* The OTP requests on the verified account of InitSession: resend-otp,    *)
(* request-password-reset, verify-email and reset-password, also for an    *)
(* email that has no account.                                              *)
Unregistered == "nobody@x.com"

NextVerified ==
    \/ \E d \in TickSteps : Tick(d)
    \/ \E c \in Clients, e \in Emails \cup {Unregistered},
          type \in {"PASSWORD_RESET", "EMAIL_VERIFY"} : OtpFind(c, e, type)
    \/ \E c \in Clients, otp \in Otps : OtpUpdate(c, otp, "none")
    \/ \E c \in Clients, e \in Emails \cup {Unregistered}, otp \in Otps : VerifyFind(c, e, otp)
    \/ \E c \in Clients : VerifyUpdate(c, "none")
    \/ \E c \in Clients : SaveSession(c)
    \/ \E c \in Clients, e \in Emails \cup {Unregistered}, otp \in Otps : ResetFind(c, e, otp)
    \/ \E c \in Clients, pw \in Passwords : ResetUpdate(c, pw, "none")

SpecVerified == InitSession /\ [][NextVerified]_vars

(* Spec reaches InitSession's store, clock, history and delivered tokens *)
SessionStateReached ==
    /\ users = {[User0 EXCEPT !.refreshToken = hashToken(Refresh0)]}
    /\ profiles = {1}
    /\ audit = SetToBag({<<"REGISTER", 1>>, <<"VERIFY_EMAIL", 1>>})
    /\ nextId = 2 /\ now = 0 /\ ticks = 0
    /\ reqs = [c \in Clients |-> Idle]
    /\ last = Response("verifyEmail", Ok("Email verified successfully."))
    /\ held = {Refresh0, AccessOf(Refresh0)}
    /\ otpUses = 1 /\ revoked = {} /\ changed = {}

---------------------------------------------------------------------------
(* ROLE GUARDS AND ADMIN ROUTES *)

Roles == {"ADMIN", "TRAVELLER"}

(* authorize(allowedRoles) applied to a request whose req.user is attached *)
(* ({} when the gate attached none)                                        *)
authorizeWithHierarchy(allowedRoles, attached) ==
    IF attached = {} THEN Err("AuthenticationError", "Authentication required")
    ELSE IF One(attached).role # "ADMIN" /\ One(attached).role \notin allowedRoles
    THEN Err("ForbiddenError", "Insufficient permissions for this action")
    ELSE Ok("")

authorize(allowedRoles, attached) ==
    IF attached = {} THEN Err("AuthenticationError", "Authentication required")
    ELSE IF One(attached).role = "" \/ One(attached).role \notin allowedRoles
    THEN Err("ForbiddenError", "Insufficient permissions for this action")
    ELSE Ok("")

isAdminAnyUser(attached) ==
    IF attached = {} THEN Err("AuthenticationError", "Authentication required")
    ELSE Ok("")

isAdmin(attached) ==
    IF attached = {} THEN Err("AuthenticationError", "Authentication required")
    ELSE IF One(attached).role # "ADMIN"
    THEN Err("ForbiddenError", "Admin access required")
    ELSE Ok("")

isTraveller(attached) ==
    IF attached = {} THEN Err("AuthenticationError", "Authentication required")
    ELSE IF One(attached).role # "TRAVELLER"
    THEN Err("ForbiddenError", "Traveller access required")
    ELSE Ok("")

Guards == {"authorize", "isAdmin", "isTraveller"}

(* One of the three exported guards run on a request carrying `attached` *)
RoleGuard(c, guard, allowedRoles, attached) ==
    /\ Free(c)
    /\ Finish(c, guard,
         CASE guard = "authorize" -> authorize(allowedRoles, attached)
           [] guard = "isAdmin" -> isAdmin(attached)
           [] OTHER -> isTraveller(attached))
    /\ nreq' = nreq + 1
    /\ UNCHANGED <<users, profiles, audit, nextId, now, ticks, held, otpUses, revoked, changed>>

AdminOps == {"block", "unblock"}

SelfBlock == Err("ValidationError", "You cannot block your own account")

(* POST /admin/users/:id/block and /unblock up to the service call:        *)
(* authenticate, isAdmin, then the handler's own-account test              *)
AdminGate(c, op, supplied, id) ==
    /\ Free(c)
    /\ LET gate == Authenticate(supplied)
           attached == IF gate.kind = "ok" THEN ById(One(supplied).userId) ELSE {}
           guard == isAdmin(attached)
       IN IF gate.kind # "ok" THEN Finish(c, op, gate)
          ELSE IF guard.kind # "ok" THEN Finish(c, op, guard)
          ELSE IF op = "block" /\ id = One(attached).id THEN Finish(c, op, SelfBlock)
          ELSE Goto(c, [Begin(op, "admin") EXCEPT
                           !.uid = id, !.actor = One(attached).id])
    /\ nreq' = nreq + 1
    /\ UNCHANGED <<users, profiles, audit, nextId, now, ticks, held, otpUses, revoked, changed>>

(* blockUser / unblockUser called by the route handler: update by id, audit *)
AdminBody(c, fault) ==
    /\ reqs[c].pc = "admin"
    /\ LET r == reqs[c]
           found == ById(r.uid)
       IN IF found = {}
          THEN /\ Finish(c, r.op, P2025)
               /\ UNCHANGED <<users, audit>>
          ELSE /\ users' = (users \ found) \cup
                     {[One(found) EXCEPT !.isActive = (r.op = "unblock")]}
               /\ audit' = AuditCreate(fault,
                     IF r.op = "block" THEN "BLOCK_USER" ELSE "UNBLOCK_USER", r.uid)
               /\ Finish(c, r.op,
                    IF fault = "audit" THEN AuditDown
                    ELSE IF r.op = "block" THEN Ok("User account blocked successfully")
                    ELSE Ok("User account unblocked successfully"))
    /\ UNCHANGED <<profiles, nextId, now, ticks, held, nreq, otpUses, revoked, changed>>

(* The seeded administrator beside the traveller account, both logged in *)
Admin0 == [User0 EXCEPT !.id = 2, !.email = "admin@tripmate.com", !.role = "ADMIN"]

AdminRefresh0 == Sign("refresh", TokenPayload(Admin0), 0)

InitAdmin ==
    /\ users = {[User0 EXCEPT !.refreshToken = hashToken(Refresh0)],
                [Admin0 EXCEPT !.refreshToken = hashToken(AdminRefresh0)]}
    /\ profiles = {1, 2}
    /\ audit = SetToBag({<<"LOGIN", 1>>, <<"LOGIN", 2>>})
    /\ nextId = 3
    /\ now = 0
    /\ ticks = 0
    /\ reqs = [c \in Clients |-> Idle]
    /\ last = Response("login", Ok("Login successful."))
    /\ held = {Refresh0, AccessOf(Refresh0), AdminRefresh0, AccessOf(AdminRefresh0)}
    /\ nreq = 0
    /\ otpUses = 0
    /\ revoked = {}
    /\ changed = {}

Attachable == {{}} \cup {{u} : u \in users}

NextAdmin ==
    \/ \E d \in TickSteps : Tick(d)
    \/ \E c \in Clients, op \in AdminOps, t \in Supplied, id \in Ids \cup {nextId} :
          AdminGate(c, op, t, id)
    \/ \E c \in Clients : AdminBody(c, "none")
    \/ \E c \in Clients, guard \in Guards, allowed \in SUBSET Roles, a \in Attachable :
          RoleGuard(c, guard, allowed, a)

SpecAdmin == InitAdmin /\ [][NextAdmin]_vars

---------------------------------------------------------------------------
(* REGISTRATION RACE *)

(* The store's answer to an insert that meets the unique index on email,    *)
(* as errorHandlerMiddleware reports it: 409 and `${field} already exists` *)
P2002 ==
    [kind |-> "PrismaClientKnownRequestError", msg |-> "email already exists",
     status |-> 409]

(* A store without the unique index: C28 fails on it. *)
UniqueViolationNever(pc, existing) == FALSE

(* The insert of an upsert that selected no row meets a row for the email *)
UniqueViolation(pc, existing) == pc = "insert" /\ existing # {}

(* registerUser's upsert when the store runs it as a select followed by an  *)
(* insert or an update: the select                                          *)
RegisterUpsertSelect(c) ==
    /\ At(c, "register", "upsert")
    /\ Goto(c, [reqs[c] EXCEPT !.pc = IF ByEmail(reqs[c].email) = {} THEN "insert"
                                      ELSE "update"])
    /\ UNCHANGED <<users, profiles, audit, nextId, now, ticks, held, nreq, otpUses, revoked, changed>>

(* ... and the insert or update, followed by the mail and the audit entry *)
RegisterUpsertWrite(c, pw, otp) ==
    /\ reqs[c].op = "register"
    /\ reqs[c].pc \in {"insert", "update"}
    /\ LET r == reqs[c]
           existing == ByEmail(r.email)
           row == IF r.pc = "update" THEN RegisterUpdateRow(One(existing), pw, otp)
                  ELSE RegisterCreateRow(r.email, pw, otp)
       IN IF UniqueViolation(r.pc, existing)
          THEN /\ Finish(c, "register", P2002)
               /\ UNCHANGED <<users, nextId, audit, otpUses>>
          ELSE IF r.pc = "update" /\ existing = {}
          THEN /\ Finish(c, "register", P2025)
               /\ UNCHANGED <<users, nextId, audit, otpUses>>
          ELSE /\ users' = IF r.pc = "update" THEN (users \ existing) \cup {row}
                           ELSE users \cup {row}
               /\ nextId' = IF r.pc = "update" THEN nextId ELSE nextId + 1
               /\ audit' = AuditCreate("none", "REGISTER", row.id)
               /\ otpUses' = 0
               /\ reqs' = [Stale(reqs) EXCEPT ![c] = Idle]
               /\ last' = Response("register",
                             Ok("Registration successful. OTP sent to your email."))
    /\ UNCHANGED <<profiles, now, ticks, held, nreq, revoked, changed>>

(* Registration alone, the upsert run either as one statement or as two *)
NextRace ==
    \/ \E d \in TickSteps : Tick(d)
    \/ \E c \in Clients, e \in Emails : RegisterFind(c, e)
    \/ \E c \in Clients, pw \in Passwords, otp \in Otps : RegisterUpsert(c, pw, otp, "none")
    \/ \E c \in Clients : RegisterUpsertSelect(c)
    \/ \E c \in Clients, pw \in Passwords, otp \in Otps : RegisterUpsertWrite(c, pw, otp)

SpecRace == Init /\ [][NextRace]_vars

---------------------------------------------------------------------------
(* PUBLIC ROUTES: the validators in front of the handlers *)

(* An email as the request body carries it: a sequence of characters *)
RawEmails ==
    {<<"u", "@", "x", ".", "c", "o", "m">>,
     <<"U", "@", "X", ".", "c", "o", "m">>,
     <<"u", "@", "x">>}

RECURSIVE Join(_)
Join(s) == IF s = <<>> THEN "" ELSE Head(s) \o Join(Tail(s))

(* String.prototype.toLowerCase on the letters in use *)
toLowerCase(s) ==
    [i \in 1..Len(s) |-> CASE s[i] = "U" -> "u" [] s[i] = "X" -> "x" [] OTHER -> s[i]]

RECURSIVE trim(_)
trim(s) ==
    IF s = <<>> THEN s
    ELSE IF Head(s) = " " THEN trim(Tail(s))
    ELSE IF s[Len(s)] = " " THEN trim(SubSeq(s, 1, Len(s) - 1))
    ELSE s

(* /^[^\s@]+@[^\s@]+\.[^\s@]+$/ *)
isValidEmail(s) ==
    /\ \A i \in 1..Len(s) : s[i] # " "
    /\ Cardinality({i \in 1..Len(s) : s[i] = "@"}) = 1
    /\ \E i \in 2..Len(s) : \E j \in (i + 2)..(Len(s) - 1) : s[i] = "@" /\ s[j] = "."

(* A sanitizer that trims only: C31 fails on it. *)
sanitizeEmailKeepingCase(s) == Join(trim(s))

sanitizeEmail(s) == Join(trim(toLowerCase(s)))

PublicRoutes ==
    {"register", "verifyEmail", "login", "requestPasswordReset", "resetPassword", "resendOtp"}

InvalidEmail == Err("ValidationError", "Please provide a valid email address.")

(* A public route up to its handler's first store call: the validator's    *)
(* email test and sanitizeEmail, then the handler with the sanitized email *)
Route(c, route, raw, pw, otp) ==
    IF ~isValidEmail(raw)
    THEN /\ Free(c)
         /\ Finish(c, route, InvalidEmail)
         /\ nreq' = nreq + 1
         /\ UNCHANGED <<users, profiles, audit, nextId, now, ticks, held, otpUses, revoked, changed>>
    ELSE LET email == sanitizeEmail(raw)
         IN CASE route = "register" -> RegisterFind(c, email)
              [] route = "verifyEmail" -> VerifyFind(c, email, otp)
              [] route = "login" -> LoginAuth(c, email, pw, "none")
              [] route = "requestPasswordReset" -> OtpFind(c, email, "PASSWORD_RESET")
              [] route = "resendOtp" -> OtpFind(c, email, "EMAIL_VERIFY")
              [] OTHER -> ResetFind(c, email, otp)

NextRoutes ==
    \/ \E d \in TickSteps : Tick(d)
    \/ \E c \in Clients, route \in PublicRoutes, raw \in RawEmails,
          pw \in Passwords, otp \in Otps : Route(c, route, raw, pw, otp)
    \/ \E c \in Clients, pw \in Passwords, otp \in Otps : RegisterUpsert(c, pw, otp, "none")
    \/ \E c \in Clients : VerifyUpdate(c, "none")
    \/ \E c \in Clients : SaveSession(c)
    \/ \E c \in Clients, otp \in Otps : OtpUpdate(c, otp, "none")
    \/ \E c \in Clients, pw \in Passwords : ResetUpdate(c, pw, "none")

SpecRoutes == Init /\ [][NextRoutes]_vars

---------------------------------------------------------------------------
(* MAIL FAILURES *)

MailFaults == {"none", "mail"}

(* Registration, OTP requests and verification with a mail transport that  *)
(* may fail on any send                                                    *)
NextMail ==
    \/ \E d \in TickSteps : Tick(d)
    \/ \E c \in Clients, e \in Emails : RegisterFind(c, e)
    \/ \E c \in Clients, pw \in Passwords, otp \in Otps, fault \in MailFaults :
          RegisterUpsert(c, pw, otp, fault)
    \/ \E c \in Clients, e \in Emails, type \in {"PASSWORD_RESET", "EMAIL_VERIFY"} :
          OtpFind(c, e, type)
    \/ \E c \in Clients, otp \in Otps, fault \in MailFaults : OtpUpdate(c, otp, fault)
    \/ \E c \in Clients, e \in Emails, otp \in Otps : VerifyFind(c, e, otp)
    \/ \E c \in Clients : VerifyUpdate(c, "none")
    \/ \E c \in Clients : SaveSession(c)

SpecMail == Init /\ [][NextMail]_vars

---------------------------------------------------------------------------
(* ACCOUNT DELETION *)

(* DELETE /users/account after the gate: deleteUserAccount (delete by id,  *)
(* audit), clear the cookies                                               *)
DeleteBody(c, fault) ==
    /\ At(c, "deleteAccount", "body")
    /\ LET found == ById(reqs[c].uid)
       IN IF found = {}
          THEN /\ Finish(c, "deleteAccount", P2025)
               /\ UNCHANGED <<users, audit>>
          ELSE /\ users' = users \ found
               /\ audit' = AuditCreate(fault, "DELETE_ACCOUNT", reqs[c].uid)
               /\ Finish(c, "deleteAccount",
                         IF fault = "audit" THEN AuditDown
                         ELSE Ok("Account deleted successfully"))
    /\ UNCHANGED <<profiles, nextId, now, ticks, held, nreq, otpUses, revoked, changed>>

(* DELETE /admin/users/:id by the administrator: deleteUserAccount *)
DeleteUser(id, fault) ==
    /\ CopiesIn(<<"DELETE_ACCOUNT", id>>, audit) < MaxBlocks
    /\ LET found == ById(id)
       IN IF found = {}
          THEN /\ last' = Response("delete", P2025)
               /\ UNCHANGED <<users, audit>>
          ELSE /\ users' = users \ found
               /\ audit' = AuditCreate(fault, "DELETE_ACCOUNT", id)
               /\ last' = Response("delete",
                    IF fault = "audit" THEN AuditDown
                    ELSE Ok("User account deleted successfully"))
    /\ UNCHANGED <<profiles, nextId, now, ticks, reqs, held, nreq, otpUses, revoked, changed>>

(* A logged-in account that may be deleted and its email registered again *)
NextDelete ==
    \/ \E d \in TickSteps : Tick(d)
    \/ \E c \in Clients, op \in {"me", "deleteAccount"}, t \in Supplied : Gate(c, op, t)
    \/ \E c \in Clients : DeleteBody(c, "none")
    \/ \E id \in Ids : DeleteUser(id, "none")
    \/ \E c \in Clients, t \in Supplied : RefreshGet(c, t)
    \/ \E c \in Clients, e \in Emails, pw \in Passwords : LoginAuth(c, e, pw, "none")
    \/ \E c \in Clients : SaveSession(c)
    \/ \E c \in Clients, e \in Emails : RegisterFind(c, e)
    \/ \E c \in Clients, pw \in Passwords, otp \in Otps : RegisterUpsert(c, pw, otp, "none")
    \/ \E c \in Clients, e \in Emails, otp \in Otps : VerifyFind(c, e, otp)
    \/ \E c \in Clients : VerifyUpdate(c, "none")

SpecDelete == InitSession /\ [][NextDelete]_vars

---------------------------------------------------------------------------
(* PROPERTIES *)

Rejected(c) == reqs'[c] = Idle /\ last'.res.kind # "ok" /\ users' = users /\ held' = held

(* The refresh token whose fingerprint the row stores *)
StoredToken(u) == u.refreshToken[2]

(* C1: once revokeAllSessions has completed, a refresh with a refresh      *)
(* token that was delivered before it fails and issues no tokens, and      *)
(* authenticate rejects an access token that was delivered before it,      *)
(* although both tokens still pass jwt.verify.                             *)
C1_RevocationInvalidatesTokens ==
    [][\A c \in Clients, t \in revoked :
         /\ (JwtVerify(t, "refresh") = "ok" /\ RefreshGet(c, {t})) => Rejected(c)
         /\ \A op \in GatedOps :
              (JwtVerify(t, "access") = "ok" /\ Gate(c, op, {t})) => Rejected(c)]_vars

(* C2: a stored refreshToken hash is the fingerprint of a refresh token    *)
(* whose version claim equals the account's current tokenVersion.          *)
C2_StoredSessionIsCurrent ==
    \A u \in users :
        u.refreshToken # Null => StoredToken(u).version = u.tokenVersion

(* C3: no handler generates a token pair for an account that is unverified *)
(* or blocked at the time it generates it.                                 *)
C3_TokensOnlyForAuthenticatable ==
    [][\A c \in Clients :
         (reqs[c].mint = {} /\ reqs'[c].mint # {}) =>
             \A u \in users' : u.id = reqs'[c].uid => (u.isVerified /\ u.isActive)]_vars

(* C4: when a login follows a completed login of the account, the first   *)
(* login's refresh token no longer passes refresh's fingerprint check once *)
(* the second login's token is saved, and the second login's token does.   *)
C4_SecondLoginSupersedesFirst ==
    [][\A c \in Clients, e \in Emails, pw \in Passwords :
         (/\ last = Response("login", Ok("Login successful."))
          /\ \A d \in Clients : reqs[d] = Idle
          /\ LoginAuth(c, e, pw, "none")
          /\ reqs'[c].mint # {}) =>
             \A u \in ById(reqs'[c].uid) :
                 u.refreshToken # Null =>
                     LET R1 == StoredToken(u)
                         R2 == One(reqs'[c].mint)
                     IN /\ GetUserWithRefreshToken({SavedRow(u, R2)}, R1).kind # "ok"
                        /\ GetUserWithRefreshToken({SavedRow(u, R2)}, R2).kind = "ok"]_vars

NoPendingOtp ==
    {Response("verifyEmail", VerifyOtpError("none")),
     Response("resetPassword", ResetOtpError("none"))}

(* C5: after a verifyEmail or resetPassword has succeeded on the stored    *)
(* OTP and while no new OTP has been stored, a verifyEmail or              *)
(* resetPassword for the account, with any code, fails with the            *)
(* no-pending-OTP error and changes no row.                                *)
C5_OtpSingleUse ==
    [][\A c \in Clients, e \in Emails, otp \in Otps :
         (/\ otpUses >= 1
          /\ ByEmail(e) # {}
          /\ (VerifyFind(c, e, otp) \/ ResetFind(c, e, otp))) =>
             (last' \in NoPendingOtp /\ reqs'[c] = Idle /\ users' = users)]_vars

(* A second attempt has failed with the no-pending-OTP error *)
C5_SecondAttemptFailed ==
    otpUses >= 1 /\ last \in NoPendingOtp /\ nreq >= 3

(* C6: one stored OTP gates at most one successful change. *)
C6_OtpGatesOneChange == otpUses <= 1

ExpiredOtp ==
    {Response("verifyEmail", VerifyOtpError("expired")),
     Response("resetPassword", ResetOtpError("expired"))}

(* C7: with the correct code of an OTP stored with expiry E, the checks of *)
(* verifyEmail and resetPassword pass at every now <= E, and at every      *)
(* now > E the request fails with the expired error and changes no row.    *)
C7_ExpiryBoundary ==
    [][\A c \in Clients, e \in Emails, otp \in Otps :
         \A u \in ByEmail(e) :
             (/\ u.otpCode # Null /\ u.otpExpiresAt # Null
              /\ verifyOTP(otp, u.otpCode)
              /\ (VerifyFind(c, e, otp) \/ ResetFind(c, e, otp))) =>
                 IF now <= u.otpExpiresAt[1]
                 THEN reqs'[c].pc = "update" /\ reqs'[c].uid = u.id
                 ELSE last' \in ExpiredOtp /\ reqs'[c] = Idle /\ users' = users]_vars

(* The correct code has been refused one second after the expiry *)
C7_RefusedJustAfterExpiry ==
    /\ last \in ExpiredOtp
    /\ \E u \in users : u.otpExpiresAt = Date(now - 1)

(* C8: register's upsert on an email that has an account overwrites that   *)
(* account's password hash and OTP, keeps its id and leaves one account    *)
(* for the email; a register that finds a verified account fails with      *)
(* ValidationError and changes no row.                                     *)
C8_ReRegistration ==
    [][/\ \A c \in Clients, pw \in Passwords, otp \in Otps :
            RegisterUpsert(c, pw, otp, "none") =>
                /\ Cardinality({v \in users' : v.email = reqs[c].email}) = 1
                /\ \A u \in ByEmail(reqs[c].email) :
                       \E v \in users' :
                           /\ v.id = u.id /\ v.email = u.email
                           /\ v.password = hashPassword(pw)
                           /\ v.otpCode = hashToken(otp)
                           /\ v.otpExpiresAt = Date(now + OTP_EXPIRE_MINUTES * 60)
                /\ nextId' = IF ByEmail(reqs[c].email) = {} THEN nextId + 1 ELSE nextId
       /\ \A c \in Clients, e \in Emails :
            (RegisterFind(c, e) /\ \E u \in ByEmail(e) : u.isVerified) =>
                /\ last'.op = "register" /\ last'.res.kind = "ValidationError"
                /\ reqs'[c] = Idle
                /\ users' = users]_vars

(* A register for a verified account has failed *)
C8_VerifiedRegisterRefused ==
    /\ last = Response("register",
                       Err("ValidationError", "Email already registered and verified."))
    /\ \E u \in users : u.isVerified

(* C9: no step sets a verified account's isVerified back to false. *)
C9_VerificationIsTerminal ==
    [][\A u \in users :
         u.isVerified => \A v \in users' : v.id = u.id => v.isVerified]_vars

(* C10: login with an email that has no account and login with a wrong     *)
(* password for an account in any state respond with the same error kind   *)
(* and message.                                                            *)
C10_LoginNoEnumeration ==
    [][\A c \in Clients, e \in Emails, pw \in Passwords :
         (/\ LoginAuth(c, e, pw, "none")
          /\ \/ ByEmail(e) = {}
             \/ \E u \in ByEmail(e) : ~comparePassword(pw, u.password)) =>
             /\ last' = Response("login", AuthenticateUser({}, pw))
             /\ reqs'[c] = Idle]_vars

(* A wrong password for a blocked account got the unknown-email response *)
C10_BlockedWrongPassword ==
    /\ last = Response("login", AuthenticateUser({}, "Pw1"))
    /\ \E u \in users : ~u.isActive /\ u.isVerified

(* C11: requestPasswordReset for an email that has no account responds     *)
(* with the success response it gives for an email that has one.           *)
C11_ResetRequestNoEnumeration ==
    [][\A c \in Clients, e \in Emails :
         (ByEmail(e) = {} /\ OtpFind(c, e, "PASSWORD_RESET")) =>
             last' = Response("requestPasswordReset",
                              Ok("Password reset link sent to your email."))]_vars

(* C12: a successful changePassword clears the stored session and adds one *)
(* to tokenVersion in its one write; afterwards a refresh with a refresh   *)
(* token delivered before it fails and authenticate rejects an access      *)
(* token delivered before it; a changePassword whose current password does *)
(* not match changes no row.                                               *)
C12_PasswordChangeForcesLogin ==
    [][/\ \A c \in Clients, pw \in Passwords :
            (ChangePasswordUpdate(c, pw) /\ ById(reqs[c].uid) # {}) =>
                \A u \in ById(reqs[c].uid) : \E v \in users' :
                    /\ v.id = u.id
                    /\ v.refreshToken = Null
                    /\ v.tokenVersion = u.tokenVersion + 1
       /\ \A c \in Clients, t \in changed :
            /\ (JwtVerify(t, "refresh") = "ok" /\ RefreshGet(c, {t})) => Rejected(c)
            /\ \A op \in GatedOps :
                 (JwtVerify(t, "access") = "ok" /\ Gate(c, op, {t})) => Rejected(c)
       /\ \A c \in Clients, pw \in Passwords :
            (/\ ChangePasswordGet(c, pw)
             /\ \E u \in ById(reqs[c].uid) : ~comparePassword(pw, u.password)) =>
                 users' = users /\ reqs'[c] = Idle /\ last'.res.kind = "ValidationError"]_vars

(* C13: a request whose access token passes jwt.verify and whose account   *)
(* has isActive = false is answered by authenticate with ForbiddenError    *)
(* and cleared cookies, whatever the token's version claim, and no route   *)
(* handler runs for it.                                                    *)
C13_BlockedAccountRejected ==
    [][\A c \in Clients, op \in GatedOps, t \in held :
         (/\ JwtVerify(t, "access") = "ok"
          /\ \E u \in ById(t.userId) : ~u.isActive
          /\ Gate(c, op, {t})) =>
             /\ last'.op = op
             /\ last'.res.kind = "ForbiddenError"
             /\ last'.cookies = "cleared"
             /\ reqs'[c] = Idle
             /\ users' = users]_vars

(* A blocked account's request with a stale access token has been refused *)
C13_BlockedStaleTokenRefused ==
    /\ last.res = Blocked
    /\ last.cookies = "cleared"
    /\ \E u \in users :
          ~u.isActive /\ \A t \in held : t.userId = u.id /\ t.version < u.tokenVersion

(* C14: a new account starts with tokenVersion 0; no step lowers an        *)
(* account's tokenVersion; a step that changes it adds one and is the      *)
(* update of resetPassword, changePassword or revokeAllSessions.           *)
C14_TokenVersionMonotone ==
    [][/\ \A u \in users, v \in users' :
            v.id = u.id =>
                /\ v.tokenVersion \in {u.tokenVersion, u.tokenVersion + 1}
                /\ v.tokenVersion # u.tokenVersion =>
                       \E c \in Clients :
                           \/ \E pw \in Passwords : ResetUpdate(c, pw, "none")
                           \/ \E pw \in Passwords : ChangePasswordUpdate(c, pw)
                           \/ RevokeUpdate(c, "none")
       /\ \A v \in users' :
            (\A u \in users : u.id # v.id) => v.tokenVersion = 0]_vars

(* An account was registered again after its tokenVersion had grown *)
C14_ReRegisteredAtVersionOne ==
    /\ last.op = "register" /\ last.res.kind = "ok"
    /\ \E u \in users : u.tokenVersion = 1

(* C15: in every account otpCode and otpExpiresAt are both null or both    *)
(* set.                                                                    *)
C15_OtpFieldsPaired ==
    \A u \in users : (u.otpCode = Null) <=> (u.otpExpiresAt = Null)

(* An OTP has been stored and then consumed *)
C15_OtpConsumed ==
    /\ otpUses >= 1
    /\ \E u \in users : u.otpCode = Null /\ u.otpExpiresAt = Null

(* C16: verifyEmail succeeds for an account only if it has not succeeded   *)
(* for that account before (every success leaves the account's profile,    *)
(* and no operation removes a profile), and its success leaves the         *)
(* account with a profile.                                                 *)
C16_VerifiedOnce ==
    [][\A c \in Clients :
         VerifyUpdate(c, "none") =>
             \A u \in ByEmail(reqs[c].email) :
                 u.id \notin profiles /\ u.id \in profiles']_vars

(* C17: refresh gets past its checks and generates a token pair only for a *)
(* token that passes jwt.verify, whose version claim equals the account's  *)
(* tokenVersion and whose fingerprint equals the stored one.               *)
C17_RefreshChecksVersion ==
    [][\A c \in Clients, t \in held :
         (RefreshGet(c, {t}) /\ reqs'[c].mint # {}) =>
             /\ JwtVerify(t, "refresh") = "ok"
             /\ \A u \in ById(t.userId) :
                    /\ t.version = u.tokenVersion
                    /\ hashToken(t) = u.refreshToken]_vars

(* C18: a step that changes an account appends an entry to the audit       *)
(* trail, unless it is the session write of a login or verifyEmail, whose  *)
(* operation has appended its entry in an earlier step; and no step        *)
(* removes or changes an entry.                                            *)
C18_MutationsAudited ==
    [][/\ users' # users =>
            \/ BagCardinality(audit') > BagCardinality(audit)
            \/ \E c \in Clients :
                   SaveSession(c) /\ reqs[c].op \in {"login", "verifyEmail"}
       /\ audit \sqsubseteq audit']_vars

(* C19: no operation answers its caller with the failure of its audit      *)
(* write.                                                                  *)
C19_AuditFailureNotPropagated == last.res # AuditDown

(* C20: the update of a successful resetPassword is one step that stores   *)
(* the new password hash, clears both OTP fields and the stored session,   *)
(* adds one to tokenVersion and changes nothing else; a resetPassword for  *)
(* an email with no account, with no pending OTP, with an expired OTP or   *)
(* with a wrong code fails and changes no row.                             *)
C20_ResetPasswordWrite ==
    [][/\ \A c \in Clients, pw \in Passwords :
            ResetUpdate(c, pw, "none") =>
                \A u \in ById(reqs[c].uid) :
                    /\ users' = (users \ {u}) \cup
                          {[id |-> u.id, email |-> u.email, role |-> u.role,
                            isVerified |-> u.isVerified, isActive |-> u.isActive,
                            password |-> hashPassword(pw),
                            otpCode |-> Null, otpExpiresAt |-> Null,
                            refreshToken |-> Null,
                            tokenVersion |-> u.tokenVersion + 1]}
                    /\ last' = Response("resetPassword", Ok("Password reset successful."))
       /\ \A c \in Clients, e \in Emails \cup {Unregistered}, otp \in Otps :
            (/\ ResetFind(c, e, otp)
             /\ \/ ByEmail(e) = {}
                \/ \E u \in ByEmail(e) :
                      \/ u.otpCode = Null
                      \/ u.otpExpiresAt = Null
                      \/ now > u.otpExpiresAt[1]
                      \/ hashToken(otp) # u.otpCode) =>
                /\ users' = users
                /\ reqs'[c] = Idle
                /\ last'.op = "resetPassword"
                /\ last'.res.kind \in {"NotFoundError", "ValidationError"}]_vars

(* A resetPassword has succeeded on an account that had a stored session *)
C20_ResetDone ==
    /\ last = Response("resetPassword", Ok("Password reset successful."))
    /\ \E u \in users :
          /\ u.tokenVersion = 1 /\ u.refreshToken = Null
          /\ u.otpCode = Null /\ u.otpExpiresAt = Null
          /\ u.password = hashPassword("Pw2")


(* C21: the two token kinds are not interchangeable.  An access token        *)
(* submitted to refresh is rejected by the signature check, and a refresh    *)
(* token submitted to the Request Gate is rejected as an invalid token; in   *)
(* both cases nothing is stored and nothing is minted.                       *)
C21_TokenKindsNotInterchangeable ==
    [][\A c \in Clients : \A t \in held :
         /\ (t.kind = "access" /\ RefreshGet(c, {t}))
                => (Rejected(c) /\ last'.res.kind = "JsonWebTokenError")
         /\ \A op \in GatedOps :
              (t.kind = "refresh" /\ Gate(c, op, {t}))
                => (Rejected(c)
                    /\ last'.res = Err("AuthenticationError", "Invalid or expired token"))]_vars

C21_BothKindsRefused ==
    /\ last.op = "refresh"
    /\ last.res.kind = "JsonWebTokenError"
    /\ \E c \in Clients :
         /\ reqs[c] = Idle
         /\ \E t \in held : t.kind = "refresh" /\ JwtVerify(t, "refresh") = "ok"


(* C22: concurrent refresh is last-write-wins.  When two refresh requests    *)
(* for one account have both passed the fingerprint check and both wait to   *)
(* save their new token, the token of the one that saves first is orphaned:  *)
(* once the other has saved, the first one's token is refused by the         *)
(* fingerprint check of its next refresh.                                    *)
C22_ConcurrentRefreshOrphansOne ==
    \A c \in Clients : \A d \in Clients \ {c} :
        ( /\ reqs[c].op = "refresh" /\ reqs[c].pc = "save"
          /\ reqs[d].op = "refresh" /\ reqs[d].pc = "save"
          /\ reqs[c].uid = reqs[d].uid
          /\ ById(reqs[c].uid) # {} )
        => GetUserWithRefreshToken(
               {SavedRow(SavedRow(One(ById(reqs[c].uid)), One(reqs[c].mint)),
                         One(reqs[d].mint))},
               One(reqs[c].mint)).kind # "ok"


(* C23: the lifetime of an OTP depends on its purpose: the update made for   *)
(* a password-reset request stores an expiry PASSWORD_RESET_EXPIRE_MINUTES   *)
(* ahead, later than the OTP_EXPIRE_MINUTES of a verification OTP.           *)
C23_ResetOtpLivesLonger ==
    [][\A c \in Clients : \A otp \in Otps :
         ( /\ reqs[c].op = "requestPasswordReset"
           /\ ById(reqs[c].uid) # {}
           /\ OtpUpdate(c, otp, "none") )
         => \E u \in users' :
              /\ u.id = reqs[c].uid
              /\ u.otpExpiresAt = Date(now + PASSWORD_RESET_EXPIRE_MINUTES * 60)
              /\ u.otpExpiresAt[1] > now + OTP_EXPIRE_MINUTES * 60]_vars


(* C24: a block request by an administrator whose own id is the target is    *)
(* refused with the ValidationError and changes no row, so the               *)
(* administrator's isActive stays as it was; and the block and unblock       *)
(* service calls are made only by a request that passed the Request Gate     *)
(* with an account whose role is ADMIN.                                      *)
C24_AdminCannotBlockSelf ==
    [][\A c \in Clients :
         /\ \A t \in held :
              ( /\ Authenticate({t}).kind = "ok"
                /\ One(ById(t.userId)).role = "ADMIN"
                /\ AdminGate(c, "block", {t}, t.userId) )
              => (Rejected(c) /\ last'.res = SelfBlock)
         /\ (reqs[c].pc # "admin" /\ reqs'[c].pc = "admin")
              => \E t \in held :
                   /\ Authenticate({t}).kind = "ok"
                   /\ t.userId = reqs'[c].actor
                   /\ One(ById(t.userId)).role = "ADMIN"
         /\ (\E u \in users : \E v \in users' : u.id = v.id /\ u.isActive # v.isActive)
              => \E d \in Clients : reqs[d].pc = "admin" /\ reqs[d].op \in AdminOps
                                    /\ reqs[d].actor # 0]_vars

C24_SelfBlockRefused ==
    /\ last = Response("block", SelfBlock)
    /\ \E u \in users : u.role = "ADMIN" /\ u.isActive
    /\ \E u \in users : u.role = "TRAVELLER" /\ ~u.isActive


(* C25: one OTP is live per account.  When resendOtp or                      *)
(* requestPasswordReset stores a new code for an account that registered     *)
(* and holds a pending, unexpired code, the previous code (when different)   *)
(* no longer passes the OTP check although its own expiry has not passed;    *)
(* and verifyEmail and resetPassword refuse every code other than the one    *)
(* stored, changing nothing.                                                 *)
C25_OneLiveOtp ==
    [][\A c \in Clients : \A e \in Emails : \A otp \in Otps : \A prev \in Otps \ {otp} :
         /\ \A old \in ById(reqs[c].uid) :
              ( /\ old.otpCode = hashToken(prev)
                /\ ~OtpExpired(old)
                /\ OtpUpdate(c, otp, "none") )
              => \A u \in users' :
                   u.id = old.id => (OtpCheck(u, prev) = "invalid" /\ OtpCheck(u, otp) = "ok")
         /\ \A u \in ByEmail(e) :
              ( /\ u.otpCode = hashToken(otp)
                /\ ~OtpExpired(u)
                /\ (VerifyFind(c, e, prev) \/ ResetFind(c, e, prev)) )
              => (Rejected(c) /\ last'.res = Err("ValidationError", "Invalid OTP."))]_vars

C25_PreviousCodeRefused ==
    /\ last.op \in {"verifyEmail", "resetPassword"}
    /\ last.res = Err("ValidationError", "Invalid OTP.")
    /\ CopiesIn(<<"REGISTER", 1>>, audit) = 1
    /\ CopiesIn(<<"RESEND_OTP", 1>>, audit) = 1
    /\ now <= OTP_EXPIRE_MINUTES * 60
    /\ \E u \in users : u.id = 1 /\ ~u.isVerified /\ u.otpCode # Null /\ ~OtpExpired(u)


(* C26: verifyEmail and resetPassword run the OTP checks in one order.  A    *)
(* row with no pending OTP gives the no-pending error whatever the code; a   *)
(* pending OTP past its expiry gives the expired error whether or not the    *)
(* code is the stored one; the invalid-code error is given only for a        *)
(* pending, unexpired OTP and a code other than the stored one.              *)
C26_OtpCheckOrder ==
    [][\A c \in Clients : \A e \in Emails : \A otp \in Otps : \A u \in ByEmail(e) :
         LET pending == u.otpCode # Null /\ u.otpExpiresAt # Null
             Order(none, expired, invalid) ==
                 /\ reqs'[c] = Idle <=> ~(pending /\ ~OtpExpired(u) /\ verifyOTP(otp, u.otpCode))
                 /\ ~pending => last'.res = none
                 /\ (pending /\ OtpExpired(u)) => last'.res = expired
                 /\ (reqs'[c] = Idle /\ last'.res = invalid)
                       => (pending /\ ~OtpExpired(u) /\ ~verifyOTP(otp, u.otpCode))
         IN /\ VerifyFind(c, e, otp)
                 => Order(VerifyOtpError("none"), VerifyOtpError("expired"),
                          VerifyOtpError("invalid"))
            /\ ResetFind(c, e, otp)
                 => Order(ResetOtpError("none"), ResetOtpError("expired"),
                          ResetOtpError("invalid"))]_vars

C26_ExpiredWhateverTheCode ==
    /\ last = Response("resetPassword", ResetOtpError("expired"))
    /\ \E u \in users :
         /\ u.otpCode # Null /\ u.otpExpiresAt # Null
         /\ OtpExpired(u)
         /\ \E otp \in Otps : ~verifyOTP(otp, u.otpCode)


(* C27: both session cookies are cleared by the response of every logout     *)
(* and every revokeAllSessions that reached its handler, of every Request    *)
(* Gate rejection of a blocked account and of every failed refresh; and a    *)
(* response sets them only when it is a successful verifyEmail, login or     *)
(* refresh.                                                                  *)
C27_CookiesClearedAndSet ==
    [][\A c \in Clients :
         /\ (\E fault \in Faults : LogoutClear(c, fault) \/ RevokeUpdate(c, fault))
              => last'.cookies = "cleared"
         /\ \A t \in held : \A op \in GatedOps :
              ( /\ JwtVerify(t, "access") = "ok"
                /\ \E u \in ById(t.userId) : ~u.isActive
                /\ Gate(c, op, {t}) )
              => last'.cookies = "cleared"
         /\ \A t \in Supplied :
              (RefreshGet(c, t) /\ reqs'[c] = Idle) => last'.cookies = "cleared"
         /\ (last' # last /\ last'.cookies = "set")
              => (last'.op \in {"verifyEmail", "login", "refresh"} /\ last'.res.kind = "ok")]_vars


(* C28: register requests racing for one email never leave two accounts for  *)
(* it; and when the insert of the losing upsert meets the unique index, the  *)
(* request ends with the 409 'already exists' answer, not with success, and  *)
(* writes nothing.                                                           *)
C28_RegisterRace ==
    [][/\ \A e \in Emails : Cardinality({u \in users' : u.email = e}) <= 1
       /\ \A c \in Clients : \A pw \in Passwords : \A otp \in Otps :
            ( /\ reqs[c].pc = "insert"
              /\ ByEmail(reqs[c].email) # {}
              /\ RegisterUpsertWrite(c, pw, otp) )
            => ( /\ Rejected(c)
                 /\ audit' = audit
                 /\ last'.res.status = 409
                 /\ last'.res.msg = "email already exists" )]_vars

C28_LosingUpsertConflict ==
    /\ last = Response("register", P2002)
    /\ Cardinality(ByEmail("u@x.com")) = 1
    /\ CopiesIn(<<"REGISTER", 1>>, audit) = 1
    /\ \A c \in Clients : reqs[c] = Idle


(* C29: the token pair minted by verifyEmail, login and refresh carries the  *)
(* id, the role name and the tokenVersion of the account row the handler     *)
(* read (for verifyEmail the row its update returned), and the pair          *)
(* delivered is the pair minted: every token issued has a version claim for  *)
(* the Request Gate to compare.                                              *)
C29_TokenClaims ==
    [][\A c \in Clients :
         /\ (reqs[c].pc # "save" /\ reqs'[c].pc = "save")
              => /\ reqs'[c].op \in {"verifyEmail", "login", "refresh"}
                 /\ reqs'[c].mint # {}
                 /\ \A t \in reqs'[c].mint :
                      \E u \in (IF reqs'[c].op = "verifyEmail" THEN users' ELSE users) :
                         /\ u.id = reqs'[c].uid
                         /\ t.userId = u.id
                         /\ t.role = u.role
                         /\ t.version = u.tokenVersion
         /\ SaveSession(c)
              => held' \ held \subseteq {One(reqs[c].mint), AccessOf(One(reqs[c].mint))}]_vars

C29_IssuedTokensCarryVersion ==
    /\ last = Response("refresh", Ok(SuccessMessage("refresh")))
    /\ Cardinality(held) >= 4
    /\ \A t \in held : \E u \in users :
         t.userId = u.id /\ t.role = u.role /\ t.version = u.tokenVersion


(* C30: authorize(allowedRoles) lets a request through exactly when a user   *)
(* is attached and the user's role name is a member of allowedRoles; roles   *)
(* are not ordered, so the empty set admits nobody and ADMIN passes only     *)
(* where ADMIN is listed; a request with no attached user fails with         *)
(* AuthenticationError and an attached user outside the set with             *)
(* ForbiddenError.  isAdmin and isTraveller decide as authorize does for     *)
(* the one role.                                                             *)
C30_AuthorizeIsMembership ==
    [][\A c \in Clients : \A allowed \in SUBSET Roles : \A a \in Attachable :
         /\ RoleGuard(c, "authorize", allowed, a)
              => /\ last'.res.kind = "ok" <=> (a # {} /\ One(a).role \in allowed)
                 /\ a = {} => last'.res.kind = "AuthenticationError"
                 /\ (a # {} /\ One(a).role \notin allowed)
                       => last'.res.kind = "ForbiddenError"
                 /\ users' = users
         /\ RoleGuard(c, "isAdmin", allowed, a)
              => last'.res.kind = authorize({"ADMIN"}, a).kind
         /\ RoleGuard(c, "isTraveller", allowed, a)
              => last'.res.kind = authorize({"TRAVELLER"}, a).kind]_vars

C30_RoleOutsideSetRefused ==
    /\ last = Response("authorize",
                       Err("ForbiddenError", "Insufficient permissions for this action"))
    /\ \E u \in users : u.role = "ADMIN" /\ u.isActive
    /\ \A c \in Clients : reqs[c] = Idle


SameLetters(r1, r2) ==
    /\ Len(r1) = Len(r2)
    /\ \A i \in 1..Len(r1) :
         r1[i] = r2[i] \/ {r1[i], r2[i]} \in {{"u", "U"}, {"x", "X"}}

(* C31: through the public routes an email is identified without regard to   *)
(* letter case.  For two valid emails that differ only in letter case, a     *)
(* register, verifyEmail, login, password-reset or resend-OTP request with   *)
(* the one does what the same request with the other does, and the store     *)
(* never holds more than one account under the spellings of one email.       *)
C31_EmailCaseInsensitive ==
    [][\A r1 \in RawEmails : \A r2 \in RawEmails \ {r1} :
         (SameLetters(r1, r2) /\ isValidEmail(r1) /\ isValidEmail(r2))
         => /\ Cardinality({u \in users' : u.email \in {Join(r1), Join(r2)}}) <= 1
            /\ \A c \in Clients : \A route \in PublicRoutes :
               (Free(c) /\ nreq' = nreq + 1 /\ route \in {last'.op, reqs'[c].op})
               => \A pw \in Passwords : \A otp \in Otps :
                    Route(c, route, r1, pw, otp) => Route(c, route, r2, pw, otp)]_vars

C31_OneAccountForAllSpellings ==
    /\ last = Response("login", Ok("Login successful."))
    /\ \E u \in users : u.email = "u@x.com" /\ u.isVerified
    /\ \A u \in users : \A r \in RawEmails : isValidEmail(r) => u.email = sanitizeEmail(r)
    /\ Cardinality(users) = 1


(* C32: once an account is blocked, its isActive becomes true again only by  *)
(* an administrator's unblock: every step that turns isActive from false to  *)
(* true is an unblockUser step for that account.                             *)
C32_OnlyUnblockRestores ==
    [][\A u \in users : \A v \in users' :
         (u.id = v.id /\ ~u.isActive /\ v.isActive) => UnblockUser(u.id, "none")]_vars


(* C33: block and unblock change only isActive.  Each leaves the account's   *)
(* tokenVersion, stored refresh-token hash, password hash and OTP fields as  *)
(* they were and revokes no token, so after the unblock every delivered      *)
(* access token that is unexpired and carries the current version passes     *)
(* the Request Gate and every delivered refresh token that is unexpired and  *)
(* whose hash is the stored one passes the refresh check.                    *)
C33_BlockChangesOnlyIsActive ==
    [][\A id \in Ids :
         /\ (BlockUser(id, "none") \/ UnblockUser(id, "none"))
              => /\ \A u \in users : \E v \in users' :
                      v = [u EXCEPT !.isActive = IF u.id = id THEN ~BlockUser(id, "none")
                                                ELSE u.isActive]
                 /\ Cardinality(users') = Cardinality(users)
                 /\ held' = held
         /\ UnblockUser(id, "none")
              => \A t \in held : \A u \in ById(t.userId) :
                   /\ (t.kind = "access" /\ JwtVerify(t, "access") = "ok"
                          /\ t.version = u.tokenVersion /\ u.id = id)
                        => Authenticate({t})' = Ok("")
                   /\ (t.kind = "refresh" /\ JwtVerify(t, "refresh") = "ok"
                          /\ hashToken(t) = u.refreshToken /\ u.id = id)
                        => GetUserWithRefreshToken(ById(id), t)' = Ok("")]_vars

C33_OldTokenAdmittedAfterUnblock ==
    /\ last = Response("me", Ok(""))
    /\ CopiesIn(<<"BLOCK_USER", 1>>, audit) = 1
    /\ CopiesIn(<<"UNBLOCK_USER", 1>>, audit) = 1
    /\ held = {Refresh0, AccessOf(Refresh0)}


(* C34: logout clears only the stored refresh-token hash.  Its step leaves   *)
(* tokenVersion and every other field as they were and revokes no token:     *)
(* after it no delivered refresh token of the account passes the refresh     *)
(* check, while the Request Gate answers every delivered access token as it  *)
(* did before the logout.                                                    *)
C34_LogoutClearsOnlySession ==
    [][\A c \in Clients : \A u \in ById(reqs[c].uid) :
         LogoutClear(c, "none")
         => /\ users' = (users \ {u}) \cup {[u EXCEPT !.refreshToken = Null]}
            /\ held' = held
            /\ \A t \in held :
                 /\ (t.kind = "refresh" /\ t.userId = u.id)
                      => GetUserWithRefreshToken(ById(u.id), t)'.kind # "ok"
                 /\ t.kind = "access" => Authenticate({t})' = Authenticate({t})]_vars

C34_AccessTokenOutlivesLogout ==
    /\ last = Response("me", Ok(""))
    /\ CopiesIn(<<"LOGOUT", 1>>, audit) = 1
    /\ \E u \in users : u.id = 1 /\ u.refreshToken = Null /\ u.tokenVersion = 0
    /\ held = {Refresh0, AccessOf(Refresh0)}


(* C35: a failed OTP attempt changes nothing.  When the check of verifyEmail *)
(* or resetPassword fails (no pending OTP, expired, or wrong code) no row,   *)
(* profile or audit entry is written and no token is delivered, so a pending *)
(* OTP answers every code afterwards as it did before: no attempt is         *)
(* counted.                                                                  *)
C35_FailedOtpAttemptChangesNothing ==
    [][\A c \in Clients : \A e \in Emails : \A otp \in Otps : \A u \in ByEmail(e) :
         ( /\ OtpCheck(u, otp) # "ok"
           /\ (VerifyFind(c, e, otp) \/ ResetFind(c, e, otp)) )
         => /\ reqs'[c] = Idle
            /\ last'.res \in {VerifyOtpError(OtpCheck(u, otp)), ResetOtpError(OtpCheck(u, otp))}
            /\ users' = users
            /\ profiles' = profiles
            /\ audit' = audit
            /\ held' = held
            /\ otpUses' = otpUses
            /\ \A good \in Otps : \A v \in ByEmail(e) : OtpCheck(v, good)' = OtpCheck(u, good)]_vars

C35_OtpUsableAfterWrongCode ==
    /\ last = Response("verifyEmail", VerifyOtpError("invalid"))
    /\ \A c \in Clients : reqs[c] = Idle
    /\ \E u \in users : ~u.isVerified /\ \E good \in Otps : OtpCheck(u, good) = "ok"


(* C36: the OTP is stored before the mail is sent.  When the send fails in   *)
(* register, resendOtp or requestPasswordReset the request ends with the     *)
(* mail error and writes no audit entry, but the account (created or         *)
(* updated) holds the new OTP hash and expiry, so a code delivered earlier   *)
(* (when different) no longer passes the OTP check.                          *)
C36_OtpStoredBeforeMail ==
    [][\A c \in Clients : \A otp \in Otps :
         LET Stored(id) ==
                 /\ reqs'[c] = Idle
                 /\ last'.res = MailDown
                 /\ audit' = audit
                 /\ \E u \in users' :
                      /\ id \in {0, u.id}
                      /\ u.email = IF id = 0 THEN reqs[c].email ELSE u.email
                      /\ u.otpCode = hashToken(otp)
                      /\ u.otpExpiresAt = Date(now + OTP_EXPIRE_MINUTES * 60)
                      /\ \A prev \in Otps \ {otp} : OtpCheck(u, prev) = "invalid"
         IN /\ \A pw \in Passwords : RegisterUpsert(c, pw, otp, "mail") => Stored(0)
            /\ (ById(reqs[c].uid) # {} /\ OtpUpdate(c, otp, "mail")) => Stored(reqs[c].uid)]_vars

C36_AccountCreatedMailFailed ==
    /\ last = Response("register", MailDown)
    /\ audit = EmptyBag
    /\ \E u \in users : u.email = "u@x.com" /\ u.otpCode # Null /\ ~u.isVerified


(* C37: after an account is deleted, by itself or by an administrator,       *)
(* every access token issued for it is refused by the Request Gate and       *)
(* every refresh token issued for it fails refresh; a register of the same   *)
(* email creates an unverified account with tokenVersion 0 under an id no    *)
(* delivered token names, and an id without an account never gets one        *)
(* again, so none of the old tokens is accepted afterwards.                  *)
C37_DeletedAccountTokensDead ==
    [][\A c \in Clients :
         /\ \A t \in held :
              ById(t.userId) = {}
              => /\ {u \in users' : u.id = t.userId} = {}
                 /\ RefreshGet(c, {t}) => Rejected(c)
                 /\ \A op \in {"me", "deleteAccount"} : Gate(c, op, {t}) => Rejected(c)
         /\ \A pw \in Passwords : \A otp \in Otps :
              (ByEmail(reqs[c].email) = {} /\ RegisterUpsert(c, pw, otp, "none"))
              => \E u \in users' :
                   /\ users' = users \cup {u}
                   /\ u.email = reqs[c].email
                   /\ ~u.isVerified
                   /\ u.tokenVersion = 0
                   /\ u.refreshToken = Null
                   /\ \A t \in held : t.userId # u.id]_vars

C37_OldTokenRefusedAfterReRegister ==
    /\ last = Response("me", Err("AuthenticationError", "User not found"))
    /\ Refresh0 \in held
    /\ CopiesIn(<<"DELETE_ACCOUNT", 1>>, audit) = 1
    /\ \E u \in users : u.email = "u@x.com" /\ u.id = 2 /\ u.tokenVersion = 0


NotVerified == Err("ValidationError", "Email not verified. Please verify your account.")

AccountBlocked == Err("ForbiddenError", "Your account has been blocked by an administrator.")

(* C38: login tests the password before the verification and active flags.   *)
(* For an account in any state a wrong password gives 'Invalid               *)
(* credentials.'; the not-verified and blocked answers are given only to a   *)
(* caller who supplied the account's password; and a login that fails        *)
(* writes no audit entry, while one that passes writes the LOGIN entry.      *)
C38_PasswordCheckedFirst ==
    [][\A c \in Clients : \A e \in Emails : \A pw \in Passwords : \A u \in ByEmail(e) :
         LoginAuth(c, e, pw, "none")
         => /\ ~comparePassword(pw, u.password)
                 => (reqs'[c] = Idle
                     /\ last' = Response("login", Err("ValidationError", "Invalid credentials.")))
            /\ (reqs'[c] = Idle /\ last'.res \in {NotVerified, AccountBlocked})
                 => (comparePassword(pw, u.password) /\ (~u.isVerified \/ ~u.isActive))
            /\ (comparePassword(pw, u.password) /\ ~u.isVerified)
                 => (reqs'[c] = Idle /\ last'.res = NotVerified)
            /\ (comparePassword(pw, u.password) /\ u.isVerified /\ ~u.isActive)
                 => (reqs'[c] = Idle /\ last'.res = AccountBlocked)
            /\ reqs'[c] = Idle => (audit' = audit /\ users' = users /\ held' = held)
            /\ reqs'[c] # Idle => audit' = audit (+) SetToBag({<<"LOGIN", u.id>>})]_vars

C38_NotVerifiedToldToPasswordHolder ==
    /\ last = Response("login", NotVerified)
    /\ \E u \in users : ~u.isVerified /\ u.isActive
    /\ CopiesIn(<<"LOGIN", 1>>, audit) = 0

=============================================================================
